---- MODULE Spec2Model ----
(***************************************************************************)
(* Model of src/index.js: the retrying request executor requestWithRetry,  *)
(* the per-account flow processPrivateKey (IP lookup, login, check-in,     *)
(* points) and the driver run / runCycle.                                  *)
(*                                                                         *)
(* The program is a single async thread of control.  pc names the place    *)
(* where it is suspended or about to continue:                             *)
(*   "askQuestion"  initializeConfig waits for the prompt answer           *)
(*   "runCycle"     runCycle is about to read pk.txt                       *)
(*   "loop"         the test of runCycle's for loop                        *)
(*   "axios"        requestWithRetry awaits axios.get / axios.post         *)
(*   "backoff"      requestWithRetry awaits delay(backoff / 1000)          *)
(*   "return"       requestWithRetry has returned to its caller            *)
(*   "delay5"       runCycle awaits delay(5)                               *)
(*   "delay86400"   run awaits delay(86400)                                *)
(* Durations are kept in units of 1/Scale ms so that backoff *= 1.5 is     *)
(* exact in integers.                                                      *)
(***************************************************************************)
EXTENDS Integers, Sequences, FiniteSets, TLC

VARIABLES
  pc,              \* control position, see above
  globalUseProxy,  \* let globalUseProxy
  globalProxies,   \* let globalProxies
  pks,             \* runCycle: const pks
  i,               \* runCycle: loop index i (0-based)
  proxy,           \* runCycle: const proxy of the current iteration
  call,            \* requestWithRetry: its parameters and locals
  res,             \* the value requestWithRetry returned
  session,         \* locals of processPrivateKey / performLogin
  hist,            \* history: outcome of every attempt of the current call
  sleeps,          \* history: every backoff sleep of the current call
  issued,          \* history: requests issued for the current identity
  cycleLog,        \* history: what runCycle did in the current cycle
  warnings,        \* history: warnings logged during startup
  startup          \* history: the prompt answer and the proxies read at startup

vars == <<pc, globalUseProxy, globalProxies, pks, i, proxy, call, res,
          session, hist, sleeps, issued, cycleLog, warnings, startup>>

----------------------------------------------------------------------------
(* Bounds *)

MaxRetries == 5       \* largest retries argument tried on the executor alone
MaxKeys == 3          \* most non-blank lines of pk.txt
MaxProxies == 2       \* most non-blank lines of proxy.txt
MaxPoints == 1        \* largest totalPoints value the server reports

----------------------------------------------------------------------------
(* Values *)

Scale == 16           \* durations are in 1/16 ms
NoStatus == 0         \* null status: compares as 0 under >= and <, equals no HTTP status
DefaultRetries == 5
DefaultBackoff == 5000
RateLimitBackoff == 30000
InterIdentityDelay == 5
InterCycleDelay == 86400

Undefined == "undefined"
AlreadyMsg == "Daily quest already completed today"
Messages == {"invalid signature", AlreadyMsg}

MESSAGE_URL == "https://app.idos.network/api/auth/message"
VERIFY_URL == "https://app.idos.network/api/auth/verify"
CHECKIN_URL == "https://app.idos.network/api/user-quests/complete"
IP_URL == "https://api.ipify.org?format=json"
POINTS_URL == "https://app.idos.network/api/user/{userId}/points"

\* delay(seconds): the timer setTimeout(resolve, seconds * 1000) is set for
delay(seconds) == seconds * 1000 * Scale

\* delay(backoff / 1000) for a backoff in ms: a timer of backoff ms
delayBackoff(backoff) == backoff

NoRes == [none |-> TRUE]
NoStartup == [answeredYes |-> FALSE, proxiesRead |-> 0]

----------------------------------------------------------------------------
(* Values the remote services can answer with *)

NullData == [null |-> TRUE]          \* a 2xx response without a body
NoData == [nodata |-> TRUE]          \* an error response without a body

\* the decoded middle segment of a token
Payloads == {[json |-> TRUE, userId |-> "u1"], [json |-> TRUE, userId |-> Undefined],
             [json |-> FALSE, userId |-> Undefined]}

\* accessToken values as the list of their dot-separated segments;
\* <<>> stands for a missing accessToken
Tokens(address) ==
  {<<>>, <<"opaque">>, <<"header", "payload">>,
   <<"header", [json |-> TRUE, userId |-> "u1", sub |-> address], "signature", "more">>}
    \cup {<<"header", p @@ [sub |-> address], "signature">> : p \in Payloads}

SoftBodies == {[success |-> FALSE, error |-> m] : m \in Messages \cup {""}}

\* 2xx bodies of each endpoint, for the request c
Bodies(c) ==
  SoftBodies \cup {NullData} \cup
  CASE c.url = IP_URL -> {[ip |-> "203.0.113.7"], [ip |-> ""]}
    [] c.url = MESSAGE_URL -> {[message |-> "msg1", nonce |-> "n1"], [message |-> "msg2", nonce |-> "n2"]}
    [] c.url = VERIFY_URL -> {[accessToken |-> t] : t \in Tokens(c.payload.publicAddress)}
    [] c.url = CHECKIN_URL -> {[success |-> TRUE]}
    [] c.url = POINTS_URL -> {[totalPoints |-> <<v>>] : v \in 0..MaxPoints} \cup {[totalPoints |-> <<>>]}

ErrBodies == {NoData, [error |-> AlreadyMsg, message |-> ""], [error |-> "", message |-> "Too Many Requests"]}

\* HTTP error statuses tried on the executor alone, and in whole cycles
ExecStatuses == {304, 400, 409, 428, 429, 430, 499, 500, 502, 599, 600}
CycleStatuses == {404, 409, 502}

\* what one axios call can settle with: a 2xx response, an error that
\* carries a response (error.response), or a transport error without one
Outcomes(c, S) ==
  {[kind |-> "response", status |-> 200, data |-> d] : d \in Bodies(c)}
    \cup {[kind |-> "error", message |-> "Request failed", hasResponse |-> TRUE,
           status |-> s, data |-> d] : s \in S, d \in ErrBodies}
    \cup {[kind |-> "error", message |-> m, hasResponse |-> FALSE,
           status |-> NoStatus, data |-> NoData] : m \in {"timeout of 60000ms exceeded", "ECONNREFUSED"}}

----------------------------------------------------------------------------
(* JavaScript helpers *)

Get(d, f) == IF f \in DOMAIN d THEN d[f] ELSE Undefined

\* a || b on strings: "" and undefined are falsy
Or(a, b) == IF a = "" \/ a = Undefined THEN b ELSE a

----------------------------------------------------------------------------
(* requestWithRetry *)

isClientError(status) == status >= 400 /\ status < 500 /\ status # 429

shouldRetry(status) == status = 429 \/ (status >= 500 /\ status < 600)

backoffAfterFloor(status, backoff) ==
  IF status = 429 /\ backoff < RateLimitBackoff * Scale THEN RateLimitBackoff * Scale ELSE backoff

\* if (status === 429) backoff = 30000, inside the shouldRetry branch
backoffAfter(status, backoff) ==
  IF shouldRetry(status) /\ status = 429 THEN RateLimitBackoff * Scale ELSE backoff

nextBackoffHalved(backoff) == backoff \div 2

\* backoff *= 1.5
nextBackoff(backoff) == (backoff * 3) \div 2

attemptsRemainOffByOne(c) == c.i < c.retries

attemptsRemain(c) == c.i < c.retries - 1

\* the catch block's decision, lines 145-159: return the failure, or sleep
\* and go round the loop again
classifyRetryAll(status, c) == IF attemptsRemain(c) THEN "retry" ELSE "return"

classify(status, c) ==
  IF isClientError(status) THEN "return"
  ELSE IF shouldRetry(status) /\ attemptsRemain(c) THEN "retry"
  ELSE "return"

errorStatus(error) == IF error.hasResponse THEN error.status ELSE NoStatus

errorMessage(error) ==
  IF error.hasResponse /\ error.data # NoData
  THEN Or(error.data.error, Or(error.data.message, error.message))
  ELSE error.message

onResponseIgnoringFlag(response) == [success |-> TRUE, response |-> response.data]

\* the try block after the await: lines 134-138
onResponse(response) ==
  IF response.data # NullData /\ "success" \in DOMAIN response.data /\ response.data.success = FALSE
  THEN [success |-> FALSE, message |-> Or(Get(response.data, "error"), "Unknown error"),
        status |-> response.status]
  ELSE [success |-> TRUE, response |-> response.data]

\* entering requestWithRetry: i = 0 passes the loop test for retries >= 1
\* and the first axios call is made
requestWithRetry(method, url, payload, config, retries, backoff) ==
  /\ call' = [method |-> method, url |-> url, payload |-> payload, config |-> config,
              retries |-> retries, backoff |-> backoff * Scale, i |-> 0]
  /\ hist' = <<>>
  /\ sleeps' = <<>>
  /\ res' = NoRes
  /\ issued' = issued \cup {[url |-> url, payload |-> payload, config |-> config]}
  /\ pc' = IF 0 < retries THEN "axios" ELSE "return"

\* the awaited axios call settles with an outcome drawn from the statuses S
axiosSettles(S) ==
  /\ pc = "axios"
  /\ \E o \in Outcomes(call, S) :
       /\ hist' = Append(hist, [kind |-> o.kind, status |-> o.status,
                                successFalse |-> o.kind = "response" /\ o.data \in SoftBodies,
                                data |-> IF o.kind = "response" THEN o.data ELSE NoData])
       /\ IF o.kind = "response"
          THEN /\ res' = onResponse(o)
               /\ pc' = "return"
               /\ UNCHANGED <<call, sleeps>>
          ELSE LET status == errorStatus(o)
                   errMsg == errorMessage(o)
                   backoff == backoffAfter(status, call.backoff)
               IN IF classify(status, call) = "retry"
                  THEN /\ call' = [call EXCEPT !.backoff = backoff]
                       /\ sleeps' = Append(sleeps, [ms |-> delayBackoff(backoff), after |-> status])
                       /\ pc' = "backoff"
                       /\ UNCHANGED res
                  ELSE /\ call' = [call EXCEPT !.backoff = backoff]
                       /\ res' = [success |-> FALSE, message |-> errMsg, status |-> status]
                       /\ pc' = "return"
                       /\ UNCHANGED sleeps
  /\ UNCHANGED <<globalUseProxy, globalProxies, pks, i, proxy, session, issued,
                 cycleLog, warnings, startup>>

\* delay(backoff / 1000) elapses: backoff *= 1.5; continue (i++, loop test,
\* next axios call)
backoffElapsed ==
  /\ pc = "backoff"
  /\ call' = [call EXCEPT !.backoff = nextBackoff(call.backoff), !.i = call.i + 1]
  /\ pc' = IF call.i + 1 < call.retries THEN "axios" ELSE "return"
  /\ UNCHANGED <<globalUseProxy, globalProxies, pks, i, proxy, res, session, hist,
                 sleeps, issued, cycleLog, warnings, startup>>

----------------------------------------------------------------------------
(* The executor on its own: one call with any retries >= 1 *)

NoSession == [address |-> Undefined]
NoProxy == <<>>                      \* proxy = null
NoToken == <<>>                      \* token = null

\* the agent newAgent builds: by the scheme the proxy starts with, else null
newAgent(p) ==
  IF p # <<>> /\ Head(p) \in {"http://", "https://"} THEN "HttpsProxyAgent"
  ELSE IF p # <<>> /\ Head(p) \in {"socks4://", "socks5://"} THEN "SocksProxyAgent"
  ELSE "null"

getAxiosConfigWithoutBearer(p, token) ==
  [proxy |-> p, authorization |-> NoToken,
   httpsAgent |-> IF p # NoProxy THEN newAgent(p) ELSE "direct"]

\* headers.authorization is set for a token, httpsAgent for a proxy
getAxiosConfig(p, token) ==
  [proxy |-> p, authorization |-> token,
   httpsAgent |-> IF p # NoProxy THEN newAgent(p) ELSE "direct"]

ExecRequests ==
  {[method |-> "get", url |-> IP_URL, payload |-> NoData],
   [method |-> "post", url |-> VERIFY_URL, payload |-> [publicAddress |-> "0xA"]],
   [method |-> "get", url |-> POINTS_URL, payload |-> NoData]}

InitExec ==
  /\ globalUseProxy = FALSE
  /\ globalProxies = <<>>
  /\ pks = <<>>
  /\ i = 0
  /\ proxy = NoProxy
  /\ session = NoSession
  /\ cycleLog = [started |-> <<>>, ended |-> <<>>, proxies |-> <<>>, delays |-> <<>>, sleep |-> 0]
  /\ warnings = <<>>
  /\ startup = NoStartup
  /\ hist = <<>>
  /\ sleeps = <<>>
  /\ res = NoRes
  /\ pc = "axios"
  /\ \E r \in ExecRequests, retries \in 1..MaxRetries :
       /\ call = [method |-> r.method, url |-> r.url, payload |-> r.payload,
                  config |-> getAxiosConfig(NoProxy, NoToken), retries |-> retries,
                  backoff |-> DefaultBackoff * Scale, i |-> 0]
       /\ issued = {[url |-> r.url, payload |-> r.payload, config |-> getAxiosConfig(NoProxy, NoToken)]}

NextExec == axiosSettles(ExecStatuses) \/ backoffElapsed

SpecExec == InitExec /\ [][NextExec]_vars

\* an awaited axios call settles (within its 60 s timeout) and an awaited
\* timer fires
FairSpecExec == SpecExec /\ WF_vars(NextExec)

(* Properties of requestWithRetry *)

Last(seq) == seq[Len(seq)]
TransportError(h) == h.kind = "error" /\ h.status = NoStatus
Transient(h) ==
  h.kind = "error" /\ (h.status = 429 \/ (h.status >= 500 /\ h.status < 600) \/ h.status = NoStatus)
ClientError(h) == h.kind = "error" /\ h.status >= 400 /\ h.status < 500 /\ h.status # 429
Returned == pc = "return"

\* C1: an attempt that fails with a transport error without status is
\* retried while attempts remain: after attempt k < retries the executor
\* sleeps and goes on instead of returning.
C1_TransportErrorRetried ==
  \A k \in 1..Len(hist) :
    (TransportError(hist[k]) /\ k - 1 < call.retries - 1)
      => (Len(sleeps) >= k /\ ~(Returned /\ Len(hist) = k))

\* C2: with retries = 5, a call whose every attempt fails transiently
\* (429, 5xx or a transport error) returns a failure after exactly 5
\* attempts.
C2_FiveAttemptsWhenTransient ==
  (Returned /\ call.retries = 5 /\ \A k \in 1..Len(hist) : Transient(hist[k]))
    => (Len(hist) = 5 /\ res # NoRes /\ ~res.success)

\* C3: an attempt answered with a 4xx status other than 429 is the last
\* attempt of its call: the call has returned a failure carrying that
\* status, and no sleep follows the attempt.
C3_ClientErrorNotRetried ==
  \A k \in 1..Len(hist) :
    ClientError(hist[k])
      => /\ k = Len(hist)
         /\ Returned
         /\ res # NoRes /\ ~res.success /\ res.status = hist[k].status
         /\ Len(sleeps) = k - 1

C3_Witness ==
  /\ Returned /\ Len(hist) >= 2 /\ ClientError(Last(hist))
  /\ \E k \in 1..Len(hist) - 1 : hist[k].status = 429

\* C4: every sleep that follows a 429 lasts exactly 30000 ms.
C4_Sleep30000After429 ==
  \A k \in 1..Len(sleeps) :
    sleeps[k].after = 429 => sleeps[k].ms = 30000 * Scale

C4_Witness ==
  \E k \in 2..Len(sleeps) :
    /\ sleeps[k].after = 429 /\ sleeps[k - 1].ms > 30000 * Scale
    /\ sleeps[1].after = 429 /\ call.backoff = 30000 * Scale

\* C5 as stated: the sleeps of one call never decrease.
C5_SleepsNonDecreasing ==
  \A k \in 1..Len(sleeps) - 1 : sleeps[k].ms <= sleeps[k + 1].ms

\* C5 amended: a sleep is shorter than the one before it only when it
\* follows a 429, and then it lasts exactly 30000 ms; every other sleep is
\* one and a half times the sleep before it.
C5_SleepsNonDecreasingUnless429 ==
  \A k \in 1..Len(sleeps) - 1 :
    IF sleeps[k + 1].after = 429
    THEN sleeps[k + 1].ms = 30000 * Scale
    ELSE 2 * sleeps[k + 1].ms = 3 * sleeps[k].ms /\ sleeps[k + 1].ms >= sleeps[k].ms

C5_Witness ==
  /\ Len(sleeps) >= 3
  /\ sleeps[2].ms > sleeps[1].ms
  /\ sleeps[3].ms < sleeps[2].ms

Definitive(h) == h.kind = "response" \/ ClientError(h)

C6_Bounded ==
  /\ Len(hist) <= call.retries
  /\ Returned => (Len(hist) >= 1 /\ res # NoRes /\ res.success \in BOOLEAN)
  /\ \A k \in 1..Len(hist) - 1 : ~Definitive(hist[k])

\* C6: a call with retries >= 1 returns, with a defined result, after at
\* least 1 and at most retries attempts, and no attempt follows an attempt
\* that was answered with a 2xx response or a 4xx status other than 429.
C6_TerminatesWithinRetries == []C6_Bounded /\ <>Returned

C6_Witness == Returned /\ call.retries >= 2 /\ Len(hist) = call.retries /\ res # NoRes

----------------------------------------------------------------------------
(* Strings that the program parses are lists of pieces; " " is white space *)

RECURSIVE trimStart(_)
trimStart(str) ==
  IF str # <<>> /\ Head(str) = " " THEN trimStart(Tail(str)) ELSE str

RECURSIVE trimEnd(_)
trimEnd(str) ==
  IF str # <<>> /\ str[Len(str)] = " " THEN trimEnd(SubSeq(str, 1, Len(str) - 1)) ELSE str

trim(str) == trimEnd(trimStart(str))

toLowerCase(str) == [k \in DOMAIN str |-> IF str[k] = "Y" THEN "y" ELSE IF str[k] = "N" THEN "n" ELSE str[k]]

startsWith(str, prefix) == str # <<>> /\ Head(str) = prefix

RECURSIVE filterNonEmpty(_)
filterNonEmpty(lines) ==
  IF lines = <<>> THEN <<>>
  ELSE IF Len(Head(lines)) > 0 THEN <<Head(lines)>> \o filterNonEmpty(Tail(lines))
  ELSE filterNonEmpty(Tail(lines))

\* data.split('\n').map(line => line.trim()).filter(line => line.length > 0)
parseLines(data) == filterNonEmpty([k \in DOMAIN data |-> trim(data[k])])

NoFile == <<<<"ENOENT">>>>

----------------------------------------------------------------------------
(* Inputs: the prompt answer, proxy.txt and pk.txt *)

Answers == {<<"y">>, <<" ", "Y", " ">>, <<"n">>, <<"y", "e", "s">>, <<>>}

Schemes == <<"http://", "socks5://", "ftp://", "https://", "socks4://">>

ProxyLine(k) == <<" ", Schemes[((k - 1) % Len(Schemes)) + 1], ToString(k), " ">>

\* proxy.txt with m proxies, a blank line first and a final newline
ProxyFile(m) == <<<<" ">>>> \o [k \in 1..m |-> ProxyLine(k)] \o <<<<>>>>

ProxyFiles == {NoFile} \cup {ProxyFile(m) : m \in 0..MaxProxies}

ValidKey(k) == <<"0x", ToString(k)>>
InvalidKey == <<"not-a-key">>

\* pk.txt with n keys, each valid or not, and a final newline
PkFiles ==
  {NoFile} \cup
  UNION {{[k \in 1..n |-> IF k \in bad THEN InvalidKey ELSE ValidKey(k)] \o <<<<>>>> :
            bad \in SUBSET (1..n)} : n \in 0..MaxKeys}

\* new ethers.Wallet(pk) throws unless pk is a valid private key
walletThrows(pk) == ~startsWith(pk, "0x")

\* wallet.address
addressOf(pk) == <<"address">> \o pk

\* wallet.signMessage(message)
signMessage(pk, message) == <<"signed", message>> \o pk

----------------------------------------------------------------------------
(* Startup *)

readProxies(file) == IF file = NoFile THEN <<>> ELSE parseLines(file)

readProxiesWarnings(file) ==
  IF file = NoFile THEN <<"proxy.txt not found.">>
  ELSE IF Len(parseLines(file)) = 0 THEN <<"No proxies found. Proceeding without proxy.">>
  ELSE <<>>

readPrivateKeys(file) == IF file = NoFile THEN <<>> ELSE parseLines(file)

NoCall == [url |-> Undefined]
EmptyLog == [started |-> <<>>, ended |-> <<>>, proxies |-> <<>>, delays |-> <<>>, sleep |-> 0]

\* run after runCycle returned: the log line, then await delay(86400)
cycleCompleted(log) == [log EXCEPT !.sleep = delay(InterCycleDelay)]

Init ==
  /\ pc = "askQuestion"
  /\ globalUseProxy = FALSE
  /\ globalProxies = <<>>
  /\ pks = <<>>
  /\ i = 0
  /\ proxy = NoProxy
  /\ call = NoCall
  /\ res = NoRes
  /\ session = NoSession
  /\ hist = <<>>
  /\ sleeps = <<>>
  /\ issued = {}
  /\ cycleLog = EmptyLog
  /\ warnings = <<>>
  /\ startup = NoStartup

initializeConfigKeepsProxyOn ==
  /\ pc = "askQuestion"
  /\ \E useProxyAns \in Answers, file \in ProxyFiles :
       IF toLowerCase(trim(useProxyAns)) = <<"y">>
       THEN /\ startup' = [answeredYes |-> TRUE, proxiesRead |-> Len(readProxies(file))]
            /\ globalProxies' = readProxies(file)
            /\ globalUseProxy' = TRUE
            /\ warnings' = readProxiesWarnings(file)
       ELSE /\ startup' = [answeredYes |-> FALSE, proxiesRead |-> 0]
            /\ UNCHANGED <<globalProxies, globalUseProxy, warnings>>
  /\ pc' = "runCycle"
  /\ UNCHANGED <<pks, i, proxy, call, res, session, hist, sleeps, issued, cycleLog>>

initializeConfig ==
  /\ pc = "askQuestion"
  /\ \E useProxyAns \in Answers, file \in ProxyFiles :
       IF toLowerCase(trim(useProxyAns)) = <<"y">>
       THEN /\ startup' = [answeredYes |-> TRUE, proxiesRead |-> Len(readProxies(file))]
            /\ globalProxies' = readProxies(file)
            /\ globalUseProxy' = (Len(readProxies(file)) # 0)
            /\ warnings' = readProxiesWarnings(file) \o
                 (IF Len(readProxies(file)) = 0
                  THEN <<"No proxies available, proceeding without proxy.">> ELSE <<>>)
       ELSE /\ startup' = [answeredYes |-> FALSE, proxiesRead |-> 0]
            /\ UNCHANGED <<globalProxies, globalUseProxy, warnings>>
  /\ pc' = "runCycle"
  /\ UNCHANGED <<pks, i, proxy, call, res, session, hist, sleeps, issued, cycleLog>>

----------------------------------------------------------------------------
(* runCycle and processPrivateKey *)

\* const proxy = globalUseProxy ? globalProxies[i % globalProxies.length] : null
selectProxyShifted(useProxy, proxies, index) ==
  IF useProxy THEN proxies[((index + 1) % Len(proxies)) + 1] ELSE NoProxy

selectProxy(useProxy, proxies, index) ==
  IF useProxy THEN proxies[(index % Len(proxies)) + 1] ELSE NoProxy

runCycleExitsWhenEmpty ==
  /\ pc = "runCycle"
  /\ \E file \in PkFiles :
       /\ pks' = readPrivateKeys(file)
       /\ pc' = IF Len(readPrivateKeys(file)) = 0 THEN "exit" ELSE "loop"
  /\ i' = 0
  /\ cycleLog' = EmptyLog
  /\ issued' = {}
  /\ session' = NoSession
  /\ UNCHANGED <<globalUseProxy, globalProxies, proxy, call, res, hist, sleeps, warnings, startup>>

\* runCycle up to its for loop: read pk.txt, leave the cycle when it is empty
runCycle ==
  /\ pc = "runCycle"
  /\ \E file \in PkFiles :
       /\ pks' = readPrivateKeys(file)
       /\ pc' = IF Len(readPrivateKeys(file)) = 0 THEN "delay86400" ELSE "loop"
       /\ cycleLog' = IF Len(readPrivateKeys(file)) = 0 THEN cycleCompleted(EmptyLog) ELSE EmptyLog
  /\ i' = 0
  /\ issued' = {}
  /\ session' = NoSession
  /\ UNCHANGED <<globalUseProxy, globalProxies, proxy, call, res, hist, sleeps, warnings, startup>>

\* back in runCycle after processPrivateKey returned or threw:
\* the catch, the blank lines, await delay(5)
endIdentity ==
  /\ cycleLog' = [cycleLog EXCEPT !.ended = Append(@, i), !.delays = Append(@, delay(InterIdentityDelay))]
  /\ pc' = "delay5"

uncaught(p) ==
  /\ cycleLog' = [cycleLog EXCEPT !.started = Append(@, i), !.proxies = Append(@, p)]
  /\ pc' = "delay86400"

\* new ethers.Wallet(pk) threw in processPrivateKey: the catch of runCycle,
\* then the blank lines and await delay(5)
caught(p) ==
  /\ cycleLog' = [cycleLog EXCEPT !.started = Append(@, i),
                                  !.proxies = Append(@, p),
                                  !.ended = Append(@, i),
                                  !.delays = Append(@, delay(InterIdentityDelay))]
  /\ pc' = "delay5"

\* the loop test, then one iteration up to its first await: the proxy, new
\* ethers.Wallet(pk), and the IP lookup of getPublicIP
loop ==
  /\ pc = "loop"
  /\ IF i < Len(pks)
     THEN LET pk == pks[i + 1]
              p == selectProxy(globalUseProxy, globalProxies, i)
          IN /\ proxy' = p
             /\ IF walletThrows(pk)
                THEN /\ caught(p)
                     /\ session' = [address |-> Undefined, pk |-> pk]
                     /\ UNCHANGED <<call, res, hist, sleeps, issued>>
                ELSE /\ cycleLog' = [cycleLog EXCEPT !.started = Append(@, i),
                                                     !.proxies = Append(@, p)]
                     /\ session' = [address |-> addressOf(pk), pk |-> pk]
                     /\ requestWithRetry("get", IP_URL, NoData, getAxiosConfig(p, NoToken),
                                         DefaultRetries, DefaultBackoff)
     ELSE /\ pc' = "delay86400"
          /\ cycleLog' = cycleCompleted(cycleLog)
          /\ UNCHANGED <<proxy, call, res, session, hist, sleeps, issued>>
  /\ UNCHANGED <<globalUseProxy, globalProxies, pks, i, warnings, startup>>

\* getPublicIP after its request (the IP is only printed), then performLogin up to the challenge
\* request of getMessageAndNonce
getPublicIP ==
  /\ pc = "return"
  /\ call.url = IP_URL
  /\ requestWithRetry("post", MESSAGE_URL,
                      [publicAddress |-> session.address, publicKey |-> session.address],
                      getAxiosConfig(proxy, NoToken), DefaultRetries, DefaultBackoff)
  /\ UNCHANGED <<globalUseProxy, globalProxies, pks, i, proxy, session, cycleLog, warnings, startup>>

getMessageAndNonceCached ==
  /\ pc = "return"
  /\ call.url = MESSAGE_URL
  /\ IF res.success /\ res.response # NullData
     THEN LET message == "msg1"
              nonce == "n1"
          IN /\ session' = session @@ [msgNonce |-> [message |-> message, nonce |-> nonce]]
             /\ requestWithRetry("post", VERIFY_URL,
                                 [publicAddress |-> session.address, publicKey |-> session.address,
                                  signature |-> signMessage(session.pk, message),
                                  message |-> message, nonce |-> nonce, walletType |-> "evm"],
                                 getAxiosConfig(proxy, NoToken), DefaultRetries, DefaultBackoff)
             /\ UNCHANGED cycleLog
     ELSE /\ session' = session @@ [token |-> NoToken]
          /\ endIdentity
          /\ UNCHANGED <<call, res, hist, sleeps, issued>>
  /\ UNCHANGED <<globalUseProxy, globalProxies, pks, i, proxy, warnings, startup>>

\* getMessageAndNonce after its request; performLogin signs the challenge
\* and sends the verify request, or fails
getMessageAndNonce ==
  /\ pc = "return"
  /\ call.url = MESSAGE_URL
  /\ IF res.success /\ res.response # NullData
     THEN LET message == Get(res.response, "message")
              nonce == Get(res.response, "nonce")
          IN /\ session' = session @@ [msgNonce |-> [message |-> message, nonce |-> nonce]]
             /\ requestWithRetry("post", VERIFY_URL,
                                 [publicAddress |-> session.address, publicKey |-> session.address,
                                  signature |-> signMessage(session.pk, message),
                                  message |-> message, nonce |-> nonce, walletType |-> "evm"],
                                 getAxiosConfig(proxy, NoToken), DefaultRetries, DefaultBackoff)
             /\ UNCHANGED cycleLog
     ELSE /\ session' = session @@ [token |-> NoToken]
          /\ endIdentity
          /\ UNCHANGED <<call, res, hist, sleeps, issued>>
  /\ UNCHANGED <<globalUseProxy, globalProxies, pks, i, proxy, warnings, startup>>

extractUserIdFromTokenWithDefault(accessToken) ==
  IF Len(accessToken) # 3 THEN Undefined
  ELSE IF ~accessToken[2].json THEN Undefined
  ELSE Or(accessToken[2].userId, "unknown")

extractUserIdFromTokenAtLeast3(accessToken) ==
  IF Len(accessToken) < 3 THEN Undefined
  ELSE IF ~accessToken[2].json THEN Undefined
  ELSE accessToken[2].userId

\* extractUserIdFromToken: Undefined stands for null and undefined
extractUserIdFromToken(accessToken) ==
  IF Len(accessToken) # 3 THEN Undefined
  ELSE IF ~accessToken[2].json THEN Undefined
  ELSE accessToken[2].userId

\* res.response.accessToken of performLogin, NoToken when the request failed,
\* the body is null or has no accessToken
accessTokenOf(r) ==
  IF r.success /\ r.response # NullData /\ "accessToken" \in DOMAIN r.response
  THEN r.response.accessToken ELSE NoToken

\* performLogin after the verify request; processPrivateKey checks the token
\* and the user id and sends the check-in request of performCheckIn
performLogin ==
  /\ pc = "return"
  /\ call.url = VERIFY_URL
  /\ LET token == accessTokenOf(res)
         userId == extractUserIdFromToken(token)
     IN IF token = NoToken
        THEN /\ session' = session @@ [token |-> NoToken]
             /\ endIdentity
             /\ UNCHANGED <<call, res, hist, sleeps, issued>>
        ELSE IF userId = Undefined
        THEN /\ session' = session @@ [token |-> token, userId |-> Undefined]
             /\ endIdentity
             /\ UNCHANGED <<call, res, hist, sleeps, issued>>
        ELSE /\ session' = session @@ [token |-> token, userId |-> userId]
             /\ requestWithRetry("post", CHECKIN_URL,
                                 [questName |-> "daily_check", userId |-> userId],
                                 getAxiosConfig(proxy, token), DefaultRetries, DefaultBackoff)
             /\ UNCHANGED cycleLog
  /\ UNCHANGED <<globalUseProxy, globalProxies, pks, i, proxy, warnings, startup>>

checkInResultWithout409(r) ==
  IF ~r.success
  THEN LET errorMsg == Or(r.message, "Unknown error")
       IN IF r.status = 502 \/ errorMsg = AlreadyMsg
          THEN "alreadyChecked" ELSE "null"
  ELSE IF r.response = NullData THEN "null" ELSE "response"

\* the value performCheckIn returns for the result r of its request
checkInResult(r) ==
  IF ~r.success
  THEN LET errorMsg == Or(r.message, "Unknown error")
       IN IF r.status = 502 \/ r.status = 409 \/ errorMsg = AlreadyMsg
          THEN "alreadyChecked" ELSE "null"
  ELSE IF r.response = NullData THEN "null" ELSE "response"

\* what performCheckIn and then processPrivateKey log for the result r:
\* the warning, the error, 'Check-in successful', or nothing for a null body
checkInLogged(r) ==
  IF checkInResult(r) = "alreadyChecked" THEN "warn: Already checked in"
  ELSE IF ~r.success THEN "error: Check-in failed"
  ELSE IF checkInResult(r) = "response" THEN "info: Check-in successful"
  ELSE "none"

performCheckInStopsOnFailure ==
  /\ pc = "return"
  /\ call.url = CHECKIN_URL
  /\ session' = session @@ [checkInRes |-> checkInResult(res), checkInLog |-> checkInLogged(res)]
  /\ IF checkInResult(res) = "null"
     THEN /\ endIdentity
          /\ UNCHANGED <<call, res, hist, sleeps, issued>>
     ELSE /\ requestWithRetry("get", POINTS_URL, NoData, getAxiosConfig(proxy, session.token),
                              DefaultRetries, DefaultBackoff)
          /\ UNCHANGED cycleLog
  /\ UNCHANGED <<globalUseProxy, globalProxies, pks, i, proxy, warnings, startup>>

\* performCheckIn after its request, then fetchUserPoints up to its request
performCheckIn ==
  /\ pc = "return"
  /\ call.url = CHECKIN_URL
  /\ session' = session @@ [checkInRes |-> checkInResult(res), checkInLog |-> checkInLogged(res)]
  /\ requestWithRetry("get", POINTS_URL, NoData, getAxiosConfig(proxy, session.token),
                      DefaultRetries, DefaultBackoff)
  /\ UNCHANGED <<globalUseProxy, globalProxies, pks, i, proxy, cycleLog, warnings, startup>>

\* the string 'N/A' as its characters; a number v is <<v>>
NotAvailable == <<"N", "/", "A">>

\* the value fetchUserPoints returns for the result r of its request
userPoints(r) ==
  IF r.success /\ r.response # NullData /\ Get(r.response, "totalPoints") # <<>>
     /\ Get(r.response, "totalPoints")[1] # 0
  THEN Get(r.response, "totalPoints") ELSE NotAvailable

\* fetchUserPoints after its request; processPrivateKey completes
fetchUserPoints ==
  /\ pc = "return"
  /\ call.url = POINTS_URL
  /\ session' = session @@ [totalPoints |-> userPoints(res)]
  /\ endIdentity
  /\ UNCHANGED <<globalUseProxy, globalProxies, pks, i, proxy, call, res, hist, sleeps,
                 issued, warnings, startup>>

\* delay(5) elapses: i++
delay5Elapsed ==
  /\ pc = "delay5"
  /\ i' = i + 1
  /\ pc' = "loop"
  /\ session' = NoSession
  /\ issued' = {}
  /\ call' = NoCall
  /\ res' = NoRes
  /\ hist' = <<>>
  /\ sleeps' = <<>>
  /\ UNCHANGED <<globalUseProxy, globalProxies, pks, proxy, cycleLog, warnings, startup>>

\* run: delay(86400) elapses and the next cycle begins
delay86400Elapsed ==
  /\ pc = "delay86400"
  /\ pc' = "runCycle"
  /\ UNCHANGED <<globalUseProxy, globalProxies, pks, i, proxy, call, res, session, hist,
                 sleeps, issued, cycleLog, warnings, startup>>

Next ==
  \/ initializeConfig
  \/ runCycle
  \/ loop
  \/ axiosSettles(CycleStatuses)
  \/ backoffElapsed
  \/ getPublicIP
  \/ getMessageAndNonce
  \/ performLogin
  \/ performCheckIn
  \/ fetchUserPoints
  \/ delay5Elapsed
  \/ delay86400Elapsed

Spec == Init /\ [][Next]_vars

\* everything the program awaits after the prompt settles: file reads, axios
\* calls (60 s timeout) and timers; the prompt waits for the user
AfterStartup ==
  \/ runCycle
  \/ loop
  \/ axiosSettles(CycleStatuses)
  \/ backoffElapsed
  \/ getPublicIP
  \/ getMessageAndNonce
  \/ performLogin
  \/ performCheckIn
  \/ fetchUserPoints
  \/ delay5Elapsed
  \/ delay86400Elapsed

FairSpec == Spec /\ WF_vars(AfterStartup)

----------------------------------------------------------------------------
(* Properties of the authentication flow and of runCycle *)

AuthUrls == {MESSAGE_URL, VERIFY_URL}
AuthenticatedUrls == {CHECKIN_URL, POINTS_URL}

\* the challenge or verify request was just answered 2xx with success: false
SoftAuthAnswer == call.url \in AuthUrls /\ hist # <<>> /\ Last(hist).successFalse

C7_State ==
  SoftAuthAnswer =>
    /\ pc \in {"return", "delay5"}
    /\ res # NoRes /\ ~res.success /\ res.status = 200
    /\ Len(sleeps) = Len(hist) - 1
    /\ \A r \in issued : r.url \notin AuthenticatedUrls
    /\ pc = "delay5" => session.token = NoToken

C7_Step ==
  (SoftAuthAnswer /\ pc = "return")
    => (pc' = "delay5" /\ session'.token = NoToken /\ issued' = issued)

\* C7: when the challenge or the verify request is answered 2xx with
\* success: false, requestWithRetry returns a failure right after that
\* attempt, with no sleep after it; the identity then ends without a token
\* and without any check-in or points request.
C7_SoftFailureAbortsLogin == []C7_State /\ [][C7_Step]_vars

C7_Witness ==
  /\ pc = "delay5" /\ SoftAuthAnswer /\ call.url = VERIFY_URL
  /\ Len(hist) = 1

\* C8: with proxying enabled, the identity at index k is processed with
\* globalProxies[k mod M] in every cycle, and every request of the current
\* identity goes through that proxy.
C8_ProxyRoundRobin ==
  globalUseProxy =>
    /\ Len(globalProxies) >= 1
    /\ Len(cycleLog.proxies) = Len(cycleLog.started)
    /\ \A k \in 1..Len(cycleLog.proxies) :
         cycleLog.proxies[k] = globalProxies[((k - 1) % Len(globalProxies)) + 1]
    /\ \A r \in issued : r.config.proxy = globalProxies[(i % Len(globalProxies)) + 1]

C8_Witness ==
  /\ globalUseProxy /\ Len(globalProxies) = 2 /\ Len(cycleLog.proxies) = 3
  /\ walletThrows(pks[2])
  /\ pc = "return" /\ call.url = POINTS_URL
  /\ \E r \in issued : r.config.proxy = globalProxies[1]

Upto(n) == [k \in 1..n |-> k - 1]

\* C9: whatever happens to an identity, the cycle goes on: the identities
\* are started in index order, one at a time, each after the one before it
\* has ended, and when the cycle ends every identity was processed once.
C9_EveryIdentityProcessedInOrder ==
  /\ cycleLog.started = Upto(Len(cycleLog.started))
  /\ cycleLog.ended = Upto(Len(cycleLog.ended))
  /\ Len(cycleLog.started) <= Len(pks)
  /\ pc \in {"axios", "backoff", "return"} =>
       (Len(cycleLog.started) = i + 1 /\ Len(cycleLog.ended) = i)
  /\ pc = "delay5" => (Len(cycleLog.started) = i + 1 /\ Len(cycleLog.ended) = i + 1)
  /\ pc = "loop" => (Len(cycleLog.started) = i /\ Len(cycleLog.ended) = i)
  /\ pc = "delay86400" =>
       (Len(cycleLog.started) = Len(pks) /\ Len(cycleLog.ended) = Len(pks))

C9_Witness ==
  /\ pc = "delay86400" /\ Len(pks) = 3
  /\ walletThrows(pks[1]) /\ ~walletThrows(pks[2]) /\ walletThrows(pks[3])
  /\ cycleLog.ended = <<0, 1, 2>>

\* C10: a cycle over N >= 1 identities performs exactly N - 1 delays of 5
\* seconds: none follows the last identity.
C10_NoDelayAfterLastIdentity ==
  (pc = "delay86400" /\ Len(pks) >= 1) =>
    /\ Len(cycleLog.delays) = Len(pks) - 1
    /\ \A k \in 1..Len(cycleLog.delays) : cycleLog.delays[k] = 5000 * Scale

----------------------------------------------------------------------------
(* Properties of processPrivateKey *)

\* the body d of a 2xx answer carries a token of three segments whose
\* middle segment decodes to a user id
GrantsUser(d) ==
  /\ d # NullData /\ d # NoData /\ "accessToken" \in DOMAIN d
  /\ Len(d.accessToken) = 3
  /\ d.accessToken[2].json /\ d.accessToken[2].userId # Undefined

\* the request just answered succeeded with a token and a user id
VerifyGranted == hist # <<>> /\ Last(hist).kind = "response" /\ GrantsUser(Last(hist).data)

C11_State ==
  \A r \in issued :
    r.url \in AuthenticatedUrls =>
      /\ \E v \in issued : v.url = VERIFY_URL /\ v.payload.publicAddress = session.address
      /\ "userId" \in DOMAIN session
      /\ session.token # NoToken /\ Len(session.token) = 3
      /\ session.token[2].json /\ session.token[2].userId # Undefined
      /\ session.userId = session.token[2].userId
      /\ r.url = CHECKIN_URL => r.payload.userId = session.userId

C11_Step ==
  /\ (pc = "return" /\ call.url = VERIFY_URL) =>
       IF VerifyGranted
       THEN /\ pc' = "axios" /\ call'.url = CHECKIN_URL
            /\ session'.token = Last(hist).data.accessToken
       ELSE pc' = "delay5" /\ issued' = issued
  /\ (pc = "return" /\ call.url = MESSAGE_URL /\ call'.url # VERIFY_URL) =>
       (pc' = "delay5" /\ issued' = issued)
  /\ pc = "delay5" => (pc' = "loop" /\ i' = i + 1 /\ pks' = pks)

\* C11: the check-in and the points request of an identity are issued only
\* after its verify request of this cycle succeeded with a token from which
\* a user id was decoded; when the login fails or the user id is missing,
\* neither is issued and the loop goes on to the next identity.
C11_CheckInOnlyAfterLogin == []C11_State /\ [][C11_Step]_vars

C11_Witness ==
  /\ pc = "delay5" /\ call.url = VERIFY_URL /\ i = 0 /\ Len(pks) = 2
  /\ Last(hist).kind = "response" /\ ~Last(hist).successFalse
  /\ session.token # NoToken /\ session.userId = Undefined
  /\ \A r \in issued : r.url \notin AuthenticatedUrls

CheckInReturned == pc = "return" /\ call.url = CHECKIN_URL

\* the executor outcome is a failure that counts as already checked in
AlreadyCheckedFailure ==
  /\ ~res.success
  /\ res.status = 502 \/ res.status = 409 \/ res.message = AlreadyMsg

C12_Step ==
  CheckInReturned =>
    /\ res.success =>
         /\ session'.checkInRes # "alreadyChecked"
         /\ session'.checkInLog \in {"info: Check-in successful", "none"}
         /\ Last(hist).data # NullData => session'.checkInRes = "response"
    /\ (~res.success /\ AlreadyCheckedFailure) =>
         /\ session'.checkInRes = "alreadyChecked"
         /\ session'.checkInLog = "warn: Already checked in"
    /\ (~res.success /\ ~AlreadyCheckedFailure) =>
         /\ session'.checkInRes = "null"
         /\ session'.checkInLog = "error: Check-in failed"

C12_State ==
  CheckInReturned =>
    /\ res # NoRes
    /\ \A k \in 1..Len(hist) : hist[k].status = 409 => (k = Len(hist) /\ res.status = 409)
    /\ hist[1].status = 409 => Len(hist) = 1
    /\ (~res.success /\ res.status = 502) =>
         (Len(hist) = 5 /\ \A k \in 1..5 : hist[k].status = 502)

Issued(url) == \E r \in issued : r.url = url

C13_State ==
  /\ (Issued(CHECKIN_URL) /\ ~Issued(POINTS_URL)) =>
       (call.url = CHECKIN_URL /\ pc \in {"axios", "backoff", "return"})
  /\ (Issued(POINTS_URL) /\ pc = "delay5") =>
       /\ "totalPoints" \in DOMAIN session
       /\ ~res.success => session.totalPoints = NotAvailable
       /\ Last(cycleLog.ended) = i

C13_Step ==
  /\ CheckInReturned =>
       (pc' = "axios" /\ call'.url = POINTS_URL /\ Issued(POINTS_URL)' /\ i' = i /\ pks' = pks)
  /\ (pc = "return" /\ call.url = POINTS_URL) =>
       (pc' = "delay5" /\ cycleLog'.ended = Append(cycleLog.ended, i))

\* C13: once the check-in request of an identity has returned, whatever its
\* outcome, the points request of that identity is issued next; when the
\* points request fails the points are "N/A" and the identity still ends
\* normally.
C13_PointsAfterCheckIn == []C13_State /\ [][C13_Step]_vars

C13_Witness ==
  /\ pc = "delay5" /\ call.url = POINTS_URL /\ ~res.success
  /\ session.checkInRes = "null" /\ session.checkInLog = "error: Check-in failed"
  /\ session.totalPoints = NotAvailable

----------------------------------------------------------------------------
(* Properties of the startup and of the driver loop *)

\* the user answered 'y' and readProxies returned an empty list
YesButNoProxies == pc # "askQuestion" /\ startup.answeredYes /\ startup.proxiesRead = 0

\* C14: when the user answers 'y' and the proxy list is empty, proxying is
\* disabled (every request of every cycle is made without a proxy) and
\* exactly one warning was logged for it during startup.
C14_EmptyProxyListOneWarning ==
  YesButNoProxies =>
    /\ ~globalUseProxy
    /\ proxy = NoProxy
    /\ \A r \in issued : r.config.proxy = NoProxy /\ r.config.httpsAgent = "direct"
    /\ Len(warnings) = 1

C15_Step ==
  /\ pc = "runCycle" =>
       /\ pc' \in {"loop", "delay86400"}
       /\ pc' = "delay86400" <=> pks' = <<>>
  /\ (pc = "loop" /\ i >= Len(pks)) => pc' = "delay86400"
  /\ (pc # "delay86400" /\ pc' = "delay86400") => cycleLog'.sleep = 86400 * 1000 * Scale
  /\ pc = "delay86400" => pc' = "runCycle"

\* C15: after startup the driver never stops: a cycle ends when the
\* identity list is empty or the loop has run through it, it is followed by
\* a sleep of 24 hours and then by the next cycle, so that a new cycle is
\* started again and again.
C15_DriverNeverTerminates ==
  /\ [][C15_Step]_vars
  /\ (pc = "runCycle") ~> (pc = "delay86400")
  /\ []<>(pc \in {"askQuestion", "runCycle"})

C15_Witness ==
  /\ pc = "runCycle" /\ pks = <<>>
  /\ cycleLog.sleep = 86400 * 1000 * Scale /\ cycleLog.started = <<>>

----------------------------------------------------------------------------
(* Properties of the token *)

\* the verify request was answered with a token that does not have exactly
\* three segments
MalformedTokenGranted ==
  /\ call.url = VERIFY_URL /\ hist # <<>> /\ Last(hist).kind = "response"
  /\ Last(hist).data # NullData /\ "accessToken" \in DOMAIN Last(hist).data
  /\ Len(Last(hist).data.accessToken) \notin {0, 3}

C16_State ==
  (MalformedTokenGranted /\ pc = "delay5") =>
    /\ session.token = Last(hist).data.accessToken
    /\ session.userId = Undefined
    /\ ~Issued(CHECKIN_URL) /\ ~Issued(POINTS_URL)
    /\ Last(cycleLog.ended) = i

C16_Step ==
  /\ (MalformedTokenGranted /\ pc = "return") =>
       (pc' = "delay5" /\ session'.userId = Undefined /\ issued' = issued)
  /\ (MalformedTokenGranted /\ pc = "delay5") => (pc' = "loop" /\ i' = i + 1 /\ pks' = pks)

\* C16: for a token that does not have exactly three dot-separated
\* segments extractUserIdFromToken returns null; the identity then ends
\* before any check-in request and the loop goes on.
C16_MalformedTokenAbortsIdentity == []C16_State /\ [][C16_Step]_vars

C16_Witness ==
  /\ MalformedTokenGranted /\ pc = "delay5"
  /\ Len(session.token) = 4 /\ session.userId = Undefined
  /\ Len(pks) > i + 1

Authenticated == {CHECKIN_URL, POINTS_URL}

\* the access token in the answer to the verify request that just returned
GrantedToken == Last(hist).data.accessToken

C17_State ==
  /\ \A r \in issued :
       IF r.url \in Authenticated
       THEN /\ "token" \in DOMAIN session
            /\ r.config.authorization = session.token
            /\ Len(session.token) = 3
            /\ session.token[2].sub = addressOf(pks[i + 1])
       ELSE r.config.authorization = NoToken
  /\ pc \in {"askQuestion", "runCycle", "loop", "delay86400"} =>
       (session = NoSession /\ issued = {})

C17_Step ==
  /\ (pc = "loop" /\ pc' = "axios") =>
       ("token" \notin DOMAIN session' /\ \A r \in issued' : r.url = IP_URL)
  /\ (pc = "return" /\ call.url = VERIFY_URL /\ pc' = "axios") =>
       /\ VerifyGranted
       /\ session'.token = GrantedToken
       /\ call'.url = CHECKIN_URL /\ call'.config.authorization = GrantedToken
  /\ (pc = "return" /\ call.url = CHECKIN_URL /\ pc' = "axios") =>
       /\ session'.token = session.token
       /\ call'.url = POINTS_URL /\ call'.config.authorization = session.token

\* C17: the check-in and points requests of an identity carry the token
\* its own verify request returned in this cycle, a token minted for its own
\* address; nothing of a session outlives its identity, and the IP, challenge
\* and verify requests carry no token.
C17_TokenNeverReused == []C17_State /\ [][C17_Step]_vars

C17_Witness ==
  /\ i >= 1 /\ pc = "return" /\ call.url = POINTS_URL
  /\ pks[1] # pks[i + 1]
  /\ call.config.authorization = session.token
  /\ session.token[2].sub = addressOf(pks[i + 1])
  /\ session.token[2].sub # addressOf(pks[1])

----------------------------------------------------------------------------
(* Properties of the authentication flow *)

ChallengeReturned == pc = "return" /\ call.url = MESSAGE_URL

\* the challenge request returned Success with a challenge in its body
ChallengeSucceeded == ChallengeReturned /\ res.success /\ res.response # NullData

\* this step sends the verify request
VerifyIssued == call.url # VERIFY_URL /\ call'.url = VERIFY_URL

C18_Step ==
  /\ (pc = "loop" /\ pc' = "axios") => call'.url = IP_URL
  /\ (call.url = IP_URL /\ call'.url # IP_URL) => call'.url = MESSAGE_URL
  /\ (call.url = MESSAGE_URL /\ call'.url # MESSAGE_URL) =>
       \/ VerifyIssued
       \/ pc' = "delay5" /\ call' = call /\ session'.token = NoToken
       \/ pc = "delay5" /\ pc' = "loop"
  /\ call'.url = MESSAGE_URL => call.url \in {IP_URL, MESSAGE_URL}
  /\ VerifyIssued =>
       /\ ChallengeSucceeded
       /\ ~Issued(VERIFY_URL)
       /\ call'.payload.message = res.response.message
       /\ call'.payload.nonce = res.response.nonce
       /\ call'.payload.signature = <<"signed", res.response.message>> \o pks[i + 1]
       /\ call'.payload.publicAddress = addressOf(pks[i + 1])
  /\ (ChallengeReturned /\ ~ChallengeSucceeded) =>
       (pc' = "delay5" /\ issued' = issued /\ session'.token = NoToken)
  /\ (call.url = VERIFY_URL /\ call'.url # VERIFY_URL) =>
       \/ pc' = "axios" /\ call'.url = CHECKIN_URL /\ session'.token # NoToken
       \/ pc = "delay5" /\ pc' = "loop"

C18_State ==
  /\ Issued(VERIFY_URL) => (Issued(MESSAGE_URL) /\ "msgNonce" \in DOMAIN session)
  /\ \A r \in issued : r.url = VERIFY_URL =>
       (r.payload.message = session.msgNonce.message /\ r.payload.nonce = session.msgNonce.nonce)
  /\ \A r, q \in issued : (r.url = VERIFY_URL /\ q.url = VERIFY_URL) => r = q

\* C18: within one identity the IP lookup, the challenge request, the
\* verify request and the check-in follow in this order; the verify request
\* is sent once, only after the challenge request returned Success, with the
\* message and nonce of that answer and the signature of that message; a
\* failed challenge request ends the identity without a verify request.
C18_AuthFlowInOrder == []C18_State /\ [][C18_Step]_vars

C18_Witness ==
  /\ pc = "axios" /\ call.url = VERIFY_URL
  /\ call.payload.message = "msg2" /\ call.payload.nonce = "n2"
  /\ call.payload.signature = <<"signed", "msg2">> \o pks[i + 1]
  /\ i >= 1

----------------------------------------------------------------------------
(* Properties of the stats *)

PointsReturned == pc = "return" /\ call.url = POINTS_URL

C19_Step ==
  PointsReturned =>
    /\ \A v \in 0..MaxPoints :
         (res.success /\ res.response # NullData /\ res.response.totalPoints = <<v>>)
           => session'.totalPoints = <<v>>
    /\ session'.totalPoints = NotAvailable => ~res.success

\* C19: when the points request succeeds with totalPoints = v, 0 included,
\* the value reported for the identity is v; 'N/A' is reported only when the
\* points request failed.
C19_PointsReported == [][C19_Step]_vars

----------------------------------------------------------------------------
(* Properties of the configuration *)

ProxyList == {globalProxies[k] : k \in 1..Len(globalProxies)}

C20_State ==
  pc # "askQuestion" =>
    /\ globalUseProxy => Len(globalProxies) >= 1
    /\ globalUseProxy = (startup.answeredYes /\ startup.proxiesRead >= 1)
    /\ Len(globalProxies) = startup.proxiesRead
    /\ pc \in {"axios", "backoff", "return", "delay5"} =>
         IF globalUseProxy THEN proxy \in ProxyList ELSE proxy = NoProxy
    /\ \A k \in 1..Len(cycleLog.proxies) :
         IF globalUseProxy THEN cycleLog.proxies[k] \in ProxyList
         ELSE cycleLog.proxies[k] = NoProxy

C20_Step ==
  /\ pc # "askQuestion" =>
       (globalUseProxy' = globalUseProxy /\ globalProxies' = globalProxies /\ startup' = startup)
  /\ pc = "runCycle" => \E file \in PkFiles : pks' = readPrivateKeys(file)
  /\ pc # "runCycle" => pks' = pks
  /\ pc' = "loop" => pc \in {"runCycle", "delay5"}

\* C20: after initializeConfig, globalUseProxy implies a non-empty
\* globalProxies, and the proxy of every identity is an element of that
\* list; no step after startup changes globalUseProxy or globalProxies,
\* and the private keys are read again by every runCycle and by nothing else.
C20_ConfigFixedAtStartup == []C20_State /\ [][C20_Step]_vars

C20_Witness ==
  /\ pc = "delay86400" /\ globalUseProxy
  /\ Len(pks) >= 2 /\ Len(cycleLog.proxies) = Len(pks)
  /\ \A k \in 1..Len(pks) : cycleLog.proxies[k] = globalProxies[((k - 1) % Len(globalProxies)) + 1]

====
